---- MODULE Spec2Model ----
(***************************************************************************)
(* Model of the MCP tool server of src/src/index.ts: the three tool        *)
(* handlers list_open_issues, get_issue_details and get_resource_plan.     *)
(* Every handler is an async function; an action of the model is the code  *)
(* a handler runs between two await points on an outbound fetch.  Reading  *)
(* a response body (await response.json()) issues no request and touches   *)
(* no shared state, so it is part of the action that receives the response.*)
(* Message texts are sequences of string parts: a template literal is the  *)
(* concatenation of its parts, numbers are formatted with ToString.        *)
(***************************************************************************)
EXTENDS Integers, Sequences, FiniteSets, TLC

(* ---------------------------- bounds ----------------------------------- *)
\* number of tool invocations that may be in flight at the same time
NumInv == 2
\* longest issue list the public API answers with
MaxIssues == 6
\* most records the find request answers with
MaxRecords == 2
MaxRounds == 2

Invocations == 1..NumInv

(* ------------------------- input domains ------------------------------- *)
Owners == {"facebook"}
Repos == {"react"}
IssueNumbers == {7}
UserNames == {"alice"}
DateRanges == {"this week"}

\* a value of process.env that was never set
Undefined == "<undefined>"
EnvUsers == {Undefined, "", "admin"}
EnvPasswords == {Undefined, "secret"}

\* HTTP statuses the upstream answers with; 0 stands for "no response"
Statuses == {200, 500}
NoStatus == 0

\* what a fetch resolves or rejects with: a transport fault or a status
NetOutcomes ==
    {[fault |-> TRUE, status |-> NoStatus]} \cup
    {[fault |-> FALSE, status |-> s] : s \in Statuses}

\* payload shapes of the login response (2xx): a body of the declared type
\* FileMakerLoginResponse, carrying response.token, or a body that json()
\* or the access to response.token rejects
LoginBodies == {"token", "malformed"}

(* ------------------------- pure helpers -------------------------------- *)
Min(a, b) == IF a < b THEN a ELSE b

Range(s) == {s[k] : k \in 1..Len(s)}

\* JavaScript truthiness of a string | undefined (the operand of "!")
Falsy(v) == v \in {Undefined, ""}

\* Response.ok of the fetch API: the status is in 200..299
Ok(r) == ~r.fault /\ r.status >= 200 /\ r.status <= 299

\* what a template literal prints for the initial value null of sessionToken
NullToken == "null"
\* the session token the record backend hands out in answer to the login
\* of invocation i: tokens are opaque and every session has its own
TokenOf(i) == "tok" \o ToString(i)

RECURSIVE Join(_, _)
\* Array.prototype.join on an array of texts
Join(lines, sep) ==
    IF Len(lines) = 0 THEN <<>>
    ELSE IF Len(lines) = 1 THEN lines[1]
    ELSE lines[1] \o <<sep>> \o Join(Tail(lines), sep)

\* the value a handler's promise settles with: a returned envelope
\* {content: [{type: "text", text}], isError} or a thrown Error.
\* isError = FALSE stands for an envelope without the isError field.
Envelope(isErr, txt) == [kind |-> "return", isError |-> isErr, text |-> txt]
Thrown(msg) == [kind |-> "throw", isError |-> FALSE, text |-> msg]
NoResult == [kind |-> "none", isError |-> FALSE, text |-> <<>>]

\* message of the TypeError a rejected fetch carries
FetchFailed == <<"fetch failed">>
\* message of the error raised while reading an unusable payload
BadPayload == <<"Unexpected token in JSON or property of undefined">>

\* the events an invocation records: a request issued with the token it
\* carries, a response received with its status and the token in its body
Req(call, tok) == [ev |-> "req", call |-> call, token |-> tok, status |-> NoStatus]
Resp(call, r, tok) == [ev |-> "resp", call |-> call, token |-> tok, status |-> r.status]

NoArgs == [owner |-> "", repo |-> "", issue_number |-> 0,
           user_name |-> "", date_range |-> ""]

\* the body the data call of an invocation was answered with: whether
\* json() and the accesses to it succeed, the number of entries of the
\* list it carries, and the body field of the issue it describes
Payload(readable, n, body) == [readable |-> readable, n |-> n, body |-> body]
NoPayload == Payload(FALSE, 0, "")

(* ----------------------------- state ----------------------------------- *)
(* ------------------------ client: text input --------------------------- *)
\* a line typed at a prompt is the sequence of its characters
UpperLetters == <<"A", "B", "C", "D", "E", "F", "G", "H", "I", "J", "K", "L", "M",
                  "N", "O", "P", "Q", "R", "S", "T", "U", "V", "W", "X", "Y", "Z">>
LowerLetters == <<"a", "b", "c", "d", "e", "f", "g", "h", "i", "j", "k", "l", "m",
                  "n", "o", "p", "q", "r", "s", "t", "u", "v", "w", "x", "y", "z">>
Digits == <<"0", "1", "2", "3", "4", "5", "6", "7", "8", "9">>
WhiteSpace == {" ", "\t"}

ToLowerChar(c) ==
    IF \E k \in 1..Len(UpperLetters) : UpperLetters[k] = c
    THEN LowerLetters[CHOOSE k \in 1..Len(UpperLetters) : UpperLetters[k] = c]
    ELSE c

\* String.prototype.toLowerCase
ToLowerCase(line) == [k \in 1..Len(line) |-> ToLowerChar(line[k])]

IsDigit(c) == \E k \in 1..Len(Digits) : Digits[k] = c
DigitValue(c) == (CHOOSE k \in 1..Len(Digits) : Digits[k] = c) - 1

RECURSIVE TrimStart(_)
TrimStart(line) ==
    IF Len(line) > 0 /\ line[1] \in WhiteSpace THEN TrimStart(Tail(line)) ELSE line

RECURSIVE DigitPrefix(_)
\* the longest prefix of line made of decimal digits
DigitPrefix(line) ==
    IF Len(line) > 0 /\ IsDigit(line[1])
    THEN <<line[1]>> \o DigitPrefix(Tail(line))
    ELSE <<>>

RECURSIVE DecimalValue(_)
DecimalValue(ds) ==
    IF Len(ds) = 0 THEN 0
    ELSE 10 * DecimalValue(SubSeq(ds, 1, Len(ds) - 1)) + DigitValue(ds[Len(ds)])

NaN == [nan |-> TRUE, value |-> 0]
Number(v) == [nan |-> FALSE, value |-> v]

\* parseInt(line, 10): leading white space is skipped, a sign is taken,
\* then the longest run of digits; what follows the digits is ignored
ParseInt(line) ==
    LET t == TrimStart(line)
        signed == Len(t) > 0 /\ t[1] \in {"+", "-"}
        ds == DigitPrefix(IF signed THEN Tail(t) ELSE t)
    IN  IF Len(ds) = 0 THEN NaN
        ELSE IF signed /\ t[1] = "-" THEN Number(0 - DecimalValue(ds))
        ELSE Number(DecimalValue(ds))

\* the lines typed at the four prompts
Quit == <<"q", "u", "i", "t">>
OwnerInputs == {Quit, <<"Q", "u", "I", "T">>, <<"f", "b">>}
RepoInputs == {<<"r">>}
ActionInputs == {<<"1">>, <<"2">>, <<"3">>, <<>>}
NumberInputs == {<<"7">>, <<"-", "5">>, <<"a", "b", "c">>, <<"7", "a", "b", "c">>, <<>>}

NoLine == <<>>

\* main() before client.connect(transport)
ClientStart ==
    [pc |-> "connect", owner |-> NoLine, repo |-> NoLine, action |-> NoLine,
     issueNumberStr |-> NoLine, calls |-> <<>>, closes |-> <<>>,
     exit |-> "none", rounds |-> 0]

VARIABLES
    env,            \* process.env: FM_USER and FM_PASS
    tool,           \* tool[i]: the tool invocation i runs
    args,           \* args[i]: its validated arguments
    pc,             \* pc[i]: the await the invocation is suspended at
    sessionToken,   \* sessionToken[i]: the handler's local variable
    completion,     \* completion[i]: what try/catch completed with
    result,         \* result[i]: what the handler's promise settled with
    hist,           \* hist[i]: requests issued and responses received
    payload,        \* payload[i]: the body the data call was answered with
    client          \* the interactive client: position, locals, calls made

serverVars == <<env, tool, args, pc, sessionToken, completion, result, hist, payload>>
vars == <<env, tool, args, pc, sessionToken, completion, result, hist, payload, client>>

Init ==
    /\ env \in [FM_USER : EnvUsers, FM_PASS : EnvPasswords]
    /\ tool = [i \in Invocations |-> "none"]
    /\ args = [i \in Invocations |-> NoArgs]
    /\ pc = [i \in Invocations |-> "idle"]
    /\ sessionToken = [i \in Invocations |-> NullToken]
    /\ completion = [i \in Invocations |-> NoResult]
    /\ result = [i \in Invocations |-> NoResult]
    /\ hist = [i \in Invocations |-> <<>>]
    /\ payload = [i \in Invocations |-> NoPayload]
    /\ client = ClientStart

(* ------------------------ client: main() ------------------------------- *)
\* the finally block: rl.close() and then client.close()
Finally(c, why) ==
    [c EXCEPT !.pc = "closed", !.exit = why,
              !.closes = @ \o <<"rl.close", "client.close">>]

\* client.callTool({name, arguments})
CallTool(c, name, num) ==
    [c EXCEPT !.pc = "call",
              !.calls = Append(@, [name |-> name, owner |-> c.owner, repo |-> c.repo,
                                   issue_number |-> num])]

\* client.connect resolves and the loop is entered
ClientConnect ==
    /\ client.pc = "connect"
    /\ client' = [client EXCEPT !.pc = "ask_owner"]
    /\ UNCHANGED serverVars

\* the owner prompt is answered with a line
AnswerOwner ==
    /\ client.pc = "ask_owner"
    /\ \E line \in OwnerInputs :
        IF ToLowerCase(line) = Quit
        THEN client' = Finally([client EXCEPT !.owner = line], "quit")
        ELSE /\ client.rounds < MaxRounds
             /\ client' = [client EXCEPT !.pc = "ask_repo", !.owner = line,
                                          !.repo = NoLine, !.action = NoLine,
                                          !.issueNumberStr = NoLine,
                                          !.rounds = @ + 1]
    /\ UNCHANGED serverVars

AnswerRepo ==
    /\ client.pc = "ask_repo"
    /\ \E line \in RepoInputs :
        client' = [client EXCEPT !.pc = "ask_action", !.repo = line]
    /\ UNCHANGED serverVars

AnswerAction ==
    /\ client.pc = "ask_action"
    /\ \E line \in ActionInputs :
        LET c == [client EXCEPT !.action = line]
        IN  IF line = <<"1">> THEN client' = CallTool(c, "list_open_issues", 0)
            ELSE IF line = <<"2">> THEN client' = [c EXCEPT !.pc = "ask_number"]
            ELSE client' = [c EXCEPT !.pc = "ask_owner"]
    /\ UNCHANGED serverVars

AnswerNumber ==
    /\ client.pc = "ask_number"
    /\ \E line \in NumberInputs :
        LET c == [client EXCEPT !.issueNumberStr = line]
            issue_number == ParseInt(line)
        IN  IF issue_number.nan
            THEN client' = [c EXCEPT !.pc = "ask_owner"]
            ELSE client' = CallTool(c, "get_issue_details", issue_number.value)
    /\ UNCHANGED serverVars

\* callTool resolves, the text is printed and the loop starts over
ToolResult ==
    /\ client.pc = "call"
    /\ client' = [client EXCEPT !.pc = "ask_owner"]
    /\ UNCHANGED serverVars

\* an awaited promise rejects (connect, a prompt on a closed input, a
\* tool call): the catch block logs it and finally runs
ClientException ==
    /\ client.pc \in {"connect", "ask_owner", "ask_repo", "ask_action",
                      "ask_number", "call"}
    /\ client' = Finally(client, "exception")
    /\ UNCHANGED serverVars

NextClient ==
    \/ ClientConnect
    \/ AnswerOwner
    \/ AnswerRepo
    \/ AnswerAction
    \/ AnswerNumber
    \/ ToolResult
    \/ ClientException

SpecClient == Init /\ [][NextClient]_vars

(* ------------------------ input schemas -------------------------------- *)
\* z.string() and z.number(): required fields of the given type
ZString == [type |-> "string", optional |-> FALSE]
ZNumber == [type |-> "number", optional |-> FALSE]

\* "repo: z.string().optional()": the repository name not required
ListSchemaRepoOptional ==
    [owner |-> ZString, repo |-> [type |-> "string", optional |-> TRUE]]

ListSchema == [owner |-> ZString, repo |-> ZString]
DetailSchema == [owner |-> ZString, repo |-> ZString, issue_number |-> ZNumber]
PlanSchema == [user_name |-> ZString, date_range |-> ZString]

ToolNames == {"list_open_issues", "get_issue_details", "get_resource_plan"}
SchemaOf(t) ==
    IF t = "list_open_issues" THEN ListSchema
    ELSE IF t = "get_issue_details" THEN DetailSchema
    ELSE PlanSchema

\* the argument objects a caller may send: each string field present or
\* left out (the last string field of each schema is the one left out)
RawArgs(t) ==
    IF t = "list_open_issues"
    THEN {[NoArgs EXCEPT !.owner = o, !.repo = rp] :
            o \in Owners, rp \in Repos \cup {Undefined}}
    ELSE IF t = "get_issue_details"
    THEN {[NoArgs EXCEPT !.owner = o, !.repo = rp, !.issue_number = num] :
            o \in Owners, rp \in Repos \cup {Undefined}, num \in IssueNumbers}
    ELSE {[NoArgs EXCEPT !.user_name = u, !.date_range = d] :
            u \in UserNames, d \in DateRanges \cup {Undefined}}

\* the string fields of a schema that the arguments leave out although
\* the schema requires them
MissingFields(schema, raw) ==
    {f \in DOMAIN schema :
        /\ schema[f].type = "string"
        /\ ~schema[f].optional
        /\ raw[f] = Undefined}

\* the validator: the arguments satisfy the schema
Accepts(schema, raw) == MissingFields(schema, raw) = {}

ValidationFailure(t, fields) ==
    Envelope(TRUE, <<"Invalid arguments for tool ", t, ": ">>
                   \o [k \in 1..1 |-> CHOOSE f \in fields : TRUE] \o <<" is required">>)

\* a tool call whose arguments fail the schema: answered with a failure
\* before the handler runs
RejectToolCall(i) ==
    /\ pc[i] = "idle"
    /\ \E t \in ToolNames : \E raw \in RawArgs(t) :
        /\ ~Accepts(SchemaOf(t), raw)
        /\ tool' = [tool EXCEPT ![i] = t]
        /\ args' = [args EXCEPT ![i] = raw]
        /\ result' = [result EXCEPT ![i] =
                        ValidationFailure(t, MissingFields(SchemaOf(t), raw))]
    /\ pc' = [pc EXCEPT ![i] = "done"]
    /\ UNCHANGED <<client, env, sessionToken, completion, hist, payload>>

(* ------------------------ list_open_issues ----------------------------- *)
\* the issue list the API answers with: n issues in upstream order
Issue(k) == [number |-> k, title |-> "title" \o ToString(k), user |-> "user" \o ToString(k)]
IssueList(n) == [k \in 1..n |-> Issue(k)]

FormatIssue(issue) ==
    <<"#", ToString(issue.number), ": ", issue.title, " (by ", issue.user, ")">>

\* issues.slice(-5): the last five entries instead of the first five
Slice5FromEnd(issues) == SubSeq(issues, Len(issues) - Min(5, Len(issues)) + 1, Len(issues))

\* issues.slice(0, 5)
Slice5(issues) == SubSeq(issues, 1, Min(5, Len(issues)))

FormatIssues(issues) ==
    Join([k \in 1..Len(Slice5(issues)) |-> FormatIssue(Slice5(issues)[k])], "\n")

\* an empty list thrown as an error and reported by the catch block
ListSuccessEmptyAsError(owner, repo, issues) ==
    IF Len(issues) = 0
    THEN Envelope(TRUE, <<"Faield to fetch issues for ", owner, "/", repo,
                          ". Reason: ", "No open issues found.">>)
    ELSE Envelope(FALSE,
            <<"Found ", ToString(Len(issues)), " open issues for ", owner, "/", repo,
              ". Show the first 5:\n\n">> \o FormatIssues(issues))

ListSuccess(owner, repo, issues) ==
    IF Len(issues) = 0
    THEN Envelope(FALSE, <<"No open issues found for ", owner, "/", repo, ".">>)
    ELSE Envelope(FALSE,
            <<"Found ", ToString(Len(issues)), " open issues for ", owner, "/", repo,
              ". Show the first 5:\n\n">> \o FormatIssues(issues))

ListFailure(owner, repo, msg) ==
    Envelope(TRUE, <<"Faield to fetch issues for ", owner, "/", repo, ". Reason: ">> \o msg)

ApiStatusError(r) == <<"API request failed with status ", ToString(r.status)>>

CallListOpenIssues(i) ==
    /\ pc[i] = "idle"
    /\ \E raw \in RawArgs("list_open_issues") :
        /\ Accepts(ListSchema, raw)
        /\ args' = [args EXCEPT ![i] = raw]
    /\ tool' = [tool EXCEPT ![i] = "list_open_issues"]
    /\ hist' = [hist EXCEPT ![i] = Append(@, Req("issues", ""))]
    /\ pc' = [pc EXCEPT ![i] = "await_issues"]
    /\ UNCHANGED <<client, env, sessionToken, completion, result, payload>>

\* response.json() awaited outside the try block: an unusable body
\* rejects the handler's promise
ListHandleJsonOutsideTry(i, r, readable, n) ==
    LET o == args[i].owner
        rp == args[i].repo
    IN  IF r.fault THEN ListFailure(o, rp, FetchFailed)
        ELSE IF ~Ok(r) THEN ListFailure(o, rp, ApiStatusError(r))
        ELSE IF ~readable THEN Thrown(BadPayload)
        ELSE ListSuccess(o, rp, IssueList(n))

\* the handler's continuation once the fetch settles with r; when the
\* body is readable it is a list of n issues
ListHandle(i, r, readable, n) ==
    LET o == args[i].owner
        rp == args[i].repo
    IN  IF r.fault THEN ListFailure(o, rp, FetchFailed)
        ELSE IF ~Ok(r) THEN ListFailure(o, rp, ApiStatusError(r))
        ELSE IF ~readable THEN ListFailure(o, rp, BadPayload)
        ELSE ListSuccess(o, rp, IssueList(n))

\* the answers to the list request; the body of an answer that is a
\* fault or not 2xx is never read and is left at its default
IssuesResponses ==
    {x \in [net : NetOutcomes, readable : BOOLEAN, n : 0..MaxIssues] :
        /\ ~Ok(x.net) => x.readable
        /\ (~Ok(x.net) \/ ~x.readable) => x.n = 0}

IssuesResponds(i) ==
    /\ pc[i] = "await_issues"
    /\ \E x \in IssuesResponses :
        /\ result' = [result EXCEPT ![i] = ListHandle(i, x.net, x.readable, x.n)]
        /\ hist' = [hist EXCEPT ![i] = Append(@, Resp("issues", x.net, ""))]
        /\ payload' = [payload EXCEPT ![i] = Payload(x.readable, x.n, "")]
    /\ pc' = [pc EXCEPT ![i] = "done"]
    /\ UNCHANGED <<client, env, tool, args, sessionToken, completion>>

(* ------------------------ get_issue_details ---------------------------- *)
\* the body field of an issue: null, empty or a text
IssueBodies == {"<null>", "", "It crashes."}

DetailSuccess(num, body) ==
    Envelope(FALSE,
        FormatIssue(Issue(num)) \o
        <<"\n\n---\n\n", IF body \in {"<null>", ""} THEN "No body content." ELSE body>>)

\* the catch block without "isError: true"
DetailFailureNoFlag(num, msg) ==
    Envelope(FALSE,
        <<"Failed to fetch issue detail for issue #", ToString(num), ". Reason: ">> \o msg)

DetailFailure(num, msg) ==
    Envelope(TRUE,
        <<"Failed to fetch issue detail for issue #", ToString(num), ". Reason: ">> \o msg)

CallGetIssueDetails(i) ==
    /\ pc[i] = "idle"
    /\ \E raw \in RawArgs("get_issue_details") :
        /\ Accepts(DetailSchema, raw)
        /\ args' = [args EXCEPT ![i] = raw]
    /\ tool' = [tool EXCEPT ![i] = "get_issue_details"]
    /\ hist' = [hist EXCEPT ![i] = Append(@, Req("issue", ""))]
    /\ pc' = [pc EXCEPT ![i] = "await_issue"]
    /\ UNCHANGED <<client, env, sessionToken, completion, result, payload>>

\* a handler that numbers its answers with a counter kept between calls
DetailHandleCounting(i, r, readable, body) ==
    LET num == args[i].issue_number
        served == Cardinality({j \in Invocations : pc[j] = "done"})
        e == IF r.fault THEN DetailFailure(num, FetchFailed)
             ELSE IF ~Ok(r) THEN DetailFailure(num, ApiStatusError(r))
             ELSE IF ~readable THEN DetailFailure(num, BadPayload)
             ELSE DetailSuccess(num, body)
    IN  [e EXCEPT !.text = @ \o <<"\n\nrequest ", ToString(served + 1)>>]

DetailHandle(i, r, readable, body) ==
    LET num == args[i].issue_number
    IN  IF r.fault THEN DetailFailure(num, FetchFailed)
        ELSE IF ~Ok(r) THEN DetailFailure(num, ApiStatusError(r))
        ELSE IF ~readable THEN DetailFailure(num, BadPayload)
        ELSE DetailSuccess(num, body)

IssueResponses ==
    {x \in [net : NetOutcomes, readable : BOOLEAN, body : IssueBodies] :
        /\ ~Ok(x.net) => x.readable
        /\ (~Ok(x.net) \/ ~x.readable) => x.body = "<null>"}

IssueResponds(i) ==
    /\ pc[i] = "await_issue"
    /\ \E x \in IssueResponses :
        /\ result' = [result EXCEPT ![i] = DetailHandle(i, x.net, x.readable, x.body)]
        /\ hist' = [hist EXCEPT ![i] = Append(@, Resp("issue", x.net, ""))]
        /\ payload' = [payload EXCEPT ![i] = Payload(x.readable, 0, x.body)]
    /\ pc' = [pc EXCEPT ![i] = "done"]
    /\ UNCHANGED <<client, env, tool, args, sessionToken, completion>>

(* ------------------------ get_resource_plan ---------------------------- *)
\* a numeric field a matched record does not carry
Absent == -1

\* the k-th record of the find response: odd records carry all three
\* hour fields, even records carry a zero and lack the other two
PlanRecord(k) ==
    IF k % 2 = 1
    THEN [planned |-> 40, actual |-> 12, remaining |-> 28]
    ELSE [planned |-> Absent, actual |-> 0, remaining |-> Absent]
PlanRecords(n) == [k \in 1..n |-> PlanRecord(k)]

\* record.fieldData[...] || 0
Hours(v) == IF v = Absent \/ v = 0 THEN 0 ELSE v

FormatRecord(rec) ==
    <<"Planned: ", ToString(Hours(rec.planned)),
      "\nActual: ", ToString(Hours(rec.actual)),
      "\nRemaining: ", ToString(Hours(rec.remaining))>>

\* the two return statements of the try block
PlanSuccess(u, d, tok, records) ==
    IF Len(records) = 0
    THEN Envelope(FALSE, <<"No resource plan found for ", u, " for ", d>>)
    ELSE Envelope(FALSE,
            <<"Successfully logged into FileMaker! Session Token: ", tok,
              "\n\nResource plan for ", u, " for ", d, ":\n\n">> \o
            Join([k \in 1..Len(records) |-> FormatRecord(records[k])], "\n"))

\* the catch block: every error of the try block becomes an envelope
CatchEnvelope(msg) == Envelope(TRUE, <<"Error: ">> \o msg)

ConfigError == <<"FileMakaer username or password not set in the .env file.">>
LoginStatusError(r) == <<"FileMaker login failed with status ", ToString(r.status)>>
FindStatusError(r) == <<"FileMaker perform find failed with status ", ToString(r.status)>>
LogoutStatusError(r) == <<"FileMaker logout failed with status ", ToString(r.status)>>

\* sessionToken declared at module level: one variable for all invocations
StoreTokenShared(st, i, tok) == [j \in DOMAIN st |-> tok]

\* an assignment to the handler's local variable sessionToken
StoreToken(st, i, tok) == [st EXCEPT ![i] = tok]

\* the logout placed at the end of the try block instead of a finally
\* block: a failed try block settles the handler without a logout
EnterFinallySkipOnError(i, comp, tok, h) ==
    IF comp.isError
    THEN /\ completion' = [completion EXCEPT ![i] = comp]
         /\ hist' = [hist EXCEPT ![i] = h]
         /\ pc' = [pc EXCEPT ![i] = "done"]
         /\ result' = [result EXCEPT ![i] = comp]
    ELSE /\ completion' = [completion EXCEPT ![i] = comp]
         /\ hist' = [hist EXCEPT ![i] = Append(h, Req("logout", tok))]
         /\ pc' = [pc EXCEPT ![i] = "await_logout"]
         /\ UNCHANGED result

\* entry of the finally block: try/catch completed with comp after the
\* events h, and the logout fetch is issued for the token tok
EnterFinally(i, comp, tok, h) ==
    /\ completion' = [completion EXCEPT ![i] = comp]
    /\ hist' = [hist EXCEPT ![i] = Append(h, Req("logout", tok))]
    /\ pc' = [pc EXCEPT ![i] = "await_logout"]
    /\ UNCHANGED result

CallGetResourcePlan(i) ==
    /\ pc[i] = "idle"
    /\ \E raw \in RawArgs("get_resource_plan") :
        /\ Accepts(PlanSchema, raw)
        /\ args' = [args EXCEPT ![i] = raw]
    /\ tool' = [tool EXCEPT ![i] = "get_resource_plan"]
    /\ sessionToken' = StoreToken(sessionToken, i, NullToken)
    /\ IF Falsy(env.FM_USER) \/ Falsy(env.FM_PASS)
       THEN EnterFinally(i, CatchEnvelope(ConfigError), sessionToken'[i], hist[i])
       ELSE /\ hist' = [hist EXCEPT ![i] = Append(@, Req("login", ""))]
            /\ pc' = [pc EXCEPT ![i] = "await_login"]
            /\ UNCHANGED <<completion, result>>
    /\ UNCHANGED <<client, env, payload>>

\* the handler's continuation once the login fetch settles with r and,
\* when r is 2xx, a body of shape b
HandleLoginResponse(i, r, b) ==
    LET minted == IF Ok(r) /\ b = "token" THEN TokenOf(i) ELSE ""
        h == Append(hist[i], Resp("login", r, minted))
        failed(msg) ==
            /\ EnterFinally(i, CatchEnvelope(msg), sessionToken[i], h)
            /\ UNCHANGED sessionToken
    IN  IF r.fault THEN failed(FetchFailed)
        ELSE IF ~Ok(r) THEN failed(LoginStatusError(r))
        ELSE IF b = "malformed" THEN failed(BadPayload)
        ELSE /\ sessionToken' = StoreToken(sessionToken, i, minted)
             /\ hist' = [hist EXCEPT ![i] = Append(h, Req("find", sessionToken'[i]))]
             /\ pc' = [pc EXCEPT ![i] = "await_find"]
             /\ UNCHANGED <<completion, result>>

LoginResponses ==
    {x \in [net : NetOutcomes, body : LoginBodies] : ~Ok(x.net) => x.body = "malformed"}

LoginResponds(i) ==
    /\ pc[i] = "await_login"
    /\ \E x \in LoginResponses : HandleLoginResponse(i, x.net, x.body)
    /\ UNCHANGED <<client, env, tool, args, payload>>

\* what the try/catch completes with once the find fetch settles with r;
\* a readable body has response.data (n records) or lacks it
FindCompletion(i, r, readable, hasData, n) ==
    IF r.fault THEN CatchEnvelope(FetchFailed)
    ELSE IF ~Ok(r) THEN CatchEnvelope(FindStatusError(r))
    ELSE IF ~readable THEN CatchEnvelope(BadPayload)
    ELSE PlanSuccess(args[i].user_name, args[i].date_range, sessionToken[i],
                     IF hasData THEN PlanRecords(n) ELSE <<>>)

FindResponses ==
    {x \in [net : NetOutcomes, readable : BOOLEAN, hasData : BOOLEAN, n : 0..MaxRecords] :
        /\ ~Ok(x.net) => x.readable
        /\ (~Ok(x.net) \/ ~x.readable) => x.hasData
        /\ ~x.hasData => x.n = 0
        /\ (~Ok(x.net) \/ ~x.readable) => x.n = 0}

\* a find request that is sent once more after a non-2xx answer
FindRespondsRetry(i) ==
    /\ pc[i] = "await_find"
    /\ \E x \in FindResponses :
        IF ~x.net.fault /\ ~Ok(x.net) /\ Len(hist[i]) < 5
        THEN /\ hist' = [hist EXCEPT ![i] =
                    Append(Append(@, Resp("find", x.net, "")), Req("find", sessionToken[i]))]
             /\ UNCHANGED <<pc, completion, result, payload>>
        ELSE /\ EnterFinally(i, FindCompletion(i, x.net, x.readable, x.hasData, x.n),
                             sessionToken[i], Append(hist[i], Resp("find", x.net, "")))
             /\ payload' = [payload EXCEPT ![i] = Payload(x.readable, x.n, "")]
    /\ UNCHANGED <<client, env, tool, args, sessionToken>>

FindResponds(i) ==
    /\ pc[i] = "await_find"
    /\ \E x \in FindResponses :
        /\ EnterFinally(i, FindCompletion(i, x.net, x.readable, x.hasData, x.n),
                        sessionToken[i], Append(hist[i], Resp("find", x.net, "")))
        /\ payload' = [payload EXCEPT ![i] = Payload(x.readable, x.n, "")]
    /\ UNCHANGED <<client, env, tool, args, sessionToken>>

\* a finally block that does not look at the logout response
FinallyOutcomeIgnoreLogout(comp, r) == comp

\* what the handler settles with once the logout fetch of the finally
\* block settles with r: a throw inside finally replaces the completion
FinallyOutcome(comp, r) ==
    IF r.fault THEN Thrown(FetchFailed)
    ELSE IF ~Ok(r) THEN Thrown(LogoutStatusError(r))
    ELSE comp

\* a logout request that is sent once more after a non-2xx answer
LogoutRespondsRetry(i) ==
    /\ pc[i] = "await_logout"
    /\ \E r \in NetOutcomes :
        IF /\ ~r.fault /\ ~Ok(r)
           /\ Cardinality({k \in 1..Len(hist[i]) : hist[i][k].call = "logout"}) < 2
        THEN /\ hist' = [hist EXCEPT ![i] =
                    Append(Append(@, Resp("logout", r, "")), Req("logout", sessionToken[i]))]
             /\ UNCHANGED <<pc, result>>
        ELSE /\ result' = [result EXCEPT ![i] = FinallyOutcome(completion[i], r)]
             /\ hist' = [hist EXCEPT ![i] = Append(@, Resp("logout", r, ""))]
             /\ pc' = [pc EXCEPT ![i] = "done"]
    /\ UNCHANGED <<client, env, tool, args, sessionToken, completion, payload>>

LogoutResponds(i) ==
    /\ pc[i] = "await_logout"
    /\ \E r \in NetOutcomes :
        /\ result' = [result EXCEPT ![i] = FinallyOutcome(completion[i], r)]
        /\ hist' = [hist EXCEPT ![i] = Append(@, Resp("logout", r, ""))]
    /\ pc' = [pc EXCEPT ![i] = "done"]
    /\ UNCHANGED <<client, env, tool, args, sessionToken, completion, payload>>

Next ==
    \E i \in Invocations :
        \/ RejectToolCall(i)
        \/ CallListOpenIssues(i)
        \/ IssuesResponds(i)
        \/ CallGetIssueDetails(i)
        \/ IssueResponds(i)
        \/ CallGetResourcePlan(i)
        \/ LoginResponds(i)
        \/ FindResponds(i)
        \/ LogoutResponds(i)

Spec == Init /\ [][Next]_vars

\* the server where every fetch a get_resource_plan invocation awaits
\* settles with a response or a fault and the event loop then resumes
\* the handler
FairSpec ==
    /\ Spec
    /\ \A i \in Invocations :
        WF_vars(LoginResponds(i) \/ FindResponds(i) \/ LogoutResponds(i))

(* ------------------- observations on an invocation --------------------- *)
Plan(i) == tool[i] = "get_resource_plan"
Finished(i) == pc[i] = "done"
\* the arguments of invocation i leave out a field its tool requires
Rejected(i) ==
    \/ tool[i] \in {"list_open_issues", "get_issue_details"} /\ args[i].repo = Undefined
    \/ tool[i] = "get_resource_plan" /\ args[i].date_range = Undefined

\* positions in hist[i] of the requests / responses of an outbound call
ReqAt(i, call) == {k \in 1..Len(hist[i]) : hist[i][k].ev = "req" /\ hist[i][k].call = call}
RespAt(i, call) == {k \in 1..Len(hist[i]) : hist[i][k].ev = "resp" /\ hist[i][k].call = call}
Calls(i, call) == Cardinality(ReqAt(i, call))
Requests(i) == {k \in 1..Len(hist[i]) : hist[i][k].ev = "req"}

IsFault(e) == e.status = NoStatus
Is2xx(e) == e.status >= 200 /\ e.status <= 299
IsNon2xx(e) == ~IsFault(e) /\ ~Is2xx(e)

\* the call was answered, and answered with 2xx / with a failure
Answered(i, call) == RespAt(i, call) # {}
Answered2xx(i, call) == \E k \in RespAt(i, call) : Is2xx(hist[i][k])
AnsweredFailure(i, call) == \E k \in RespAt(i, call) : ~Is2xx(hist[i][k])

CredentialsAbsent == Falsy(env.FM_USER) \/ Falsy(env.FM_PASS)

(* ------------------------------- C1 ------------------------------------ *)
\* C1: a finished get_resource_plan invocation whose login was answered
\* with 2xx has issued exactly one logout request, whatever the find
\* request ended with (records, no records, non-2xx, transport fault).
C1_OneLogoutAfterLogin ==
    \A i \in Invocations :
        (Plan(i) /\ Finished(i) /\ Answered2xx(i, "login")) => Calls(i, "logout") = 1

\* two invocations that logged in and ran to their end with one logout
\* each: the find of one raised a transport fault, the find of the other
\* was answered 2xx without records
C1_Witness ==
    \E i, j \in Invocations :
        /\ Plan(i) /\ Finished(i) /\ Answered2xx(i, "login")
        /\ \E k \in RespAt(i, "find") : IsFault(hist[i][k])
        /\ Calls(i, "logout") = 1
        /\ Plan(j) /\ Finished(j) /\ Answered2xx(j, "login")
        /\ Answered2xx(j, "find") /\ ~completion[j].isError
        /\ "No resource plan found for " \in Range(completion[j].text)
        /\ Calls(j, "logout") = 1

(* ------------------------------- C2 ------------------------------------ *)
\* C2: when the login request of get_resource_plan fails (non-2xx or
\* transport fault) the invocation issues no find and no logout request.
C2_NoRequestAfterFailedLogin ==
    \A i \in Invocations :
        (Plan(i) /\ AnsweredFailure(i, "login")) =>
            (Calls(i, "find") = 0 /\ Calls(i, "logout") = 0)

(* ------------------------------- C3 ------------------------------------ *)
\* C3: when the username or the password is absent from the configuration
\* get_resource_plan issues no outbound request at all and ends with a
\* configuration-error envelope (isError = true).
C3_NoRequestWithoutCredentials ==
    \A i \in Invocations :
        (Plan(i) /\ CredentialsAbsent) =>
            /\ Requests(i) = {}
            /\ Finished(i) => result[i] = CatchEnvelope(ConfigError)

(* ------------------------------- C4 ------------------------------------ *)
\* C4: when login and find both succeeded and the logout request fails,
\* the invocation returns an envelope with isError = true.
C4_LogoutFailureReturnsErrorEnvelope ==
    \A i \in Invocations :
        ( /\ Plan(i) /\ Finished(i)
          /\ Answered2xx(i, "login") /\ Answered2xx(i, "find")
          /\ ~completion[i].isError
          /\ AnsweredFailure(i, "logout") )
        => (result[i].kind = "return" /\ result[i].isError)

(* ------------------------------- C5 ------------------------------------ *)
\* C5: whatever the login, find and logout calls end with, a finished
\* get_resource_plan invocation has returned an envelope; no exception
\* escapes the handler.
C5_AlwaysReturnsEnvelope ==
    \A i \in Invocations :
        (Plan(i) /\ Finished(i)) => result[i].kind = "return"

(* ------------------------------- C6 ------------------------------------ *)
\* C6: when the find step failed and the logout request fails as well,
\* the outcome reported to the caller is the find failure.
C6_FindFailureNotOverwritten ==
    \A i \in Invocations :
        ( /\ Plan(i) /\ Finished(i)
          /\ Answered(i, "find") /\ completion[i].isError
          /\ AnsweredFailure(i, "logout") )
        => result[i] = completion[i]

(* ------------------------------- C7 ------------------------------------ *)
\* C7: within one get_resource_plan invocation the find request is issued
\* only after a 2xx login response carrying a token, and the logout
\* request is issued only after the find step has been answered.
C7_StepsInOrder ==
    \A i \in Invocations :
        Plan(i) =>
            /\ \A k \in ReqAt(i, "find") :
                    \E m \in RespAt(i, "login") :
                        m < k /\ Is2xx(hist[i][m]) /\ hist[i][m].token # ""
            /\ \A k \in ReqAt(i, "logout") :
                    \E m \in RespAt(i, "find") : m < k

(* ------------------------------- C8 ------------------------------------ *)
\* the tokens the backend handed to invocation i in its login response
OwnTokens(i) == {hist[i][k].token : k \in RespAt(i, "login")} \ {""}

\* C8: with invocations interleaved at their awaits, the find and the
\* logout request of an invocation carry the token of that invocation's
\* own login response (null when it received none) and never
\* a token handed to another invocation; and an invocation that waits for
\* a response can always take its next step, whatever the others wait for.
C8_TokensNotShared ==
    \A i \in Invocations :
        /\ Plan(i) =>
              \A k \in ReqAt(i, "find") \cup ReqAt(i, "logout") :
                  /\ OwnTokens(i) # {} => hist[i][k].token \in OwnTokens(i)
                  /\ OwnTokens(i) = {} => hist[i][k].token = NullToken
                  /\ \A j \in Invocations \ {i} : hist[i][k].token \notin OwnTokens(j)
        /\ pc[i] = "await_login" => ENABLED LoginResponds(i)
        /\ pc[i] = "await_find" => ENABLED FindResponds(i)
        /\ pc[i] = "await_logout" => ENABLED LogoutResponds(i)

\* two invocations hold different tokens and both wait for their logout
C8_Witness ==
    \E i, j \in Invocations :
        /\ i # j /\ Plan(i) /\ Plan(j)
        /\ OwnTokens(i) # {} /\ OwnTokens(j) # {} /\ OwnTokens(i) # OwnTokens(j)
        /\ pc[i] = "await_logout" /\ pc[j] = "await_logout"
        /\ \A k \in ReqAt(i, "logout") : hist[i][k].token \in OwnTokens(i)

(* ------------------------------- C9 ------------------------------------ *)
CallKinds == {"issues", "issue", "login", "find", "logout"}

\* the outbound calls a tool may make
CallsOf(t) ==
    IF t = "list_open_issues" THEN {"issues"}
    ELSE IF t = "get_issue_details" THEN {"issue"}
    ELSE IF t = "get_resource_plan" THEN {"login", "find", "logout"}
    ELSE {}

\* C9: no call is retried: an invocation issues each kind of request at
\* most once and only the requests of its tool; the handlers of
\* list_open_issues and get_issue_details, once run, have issued exactly
\* one request.
C9_NoRetry ==
    \A i \in Invocations :
        /\ \A c \in CallKinds : Calls(i, c) <= 1
        /\ \A k \in Requests(i) : hist[i][k].call \in CallsOf(tool[i])
        /\ (tool[i] = "list_open_issues" /\ ~Rejected(i)) => Calls(i, "issues") = 1
        /\ (tool[i] = "get_issue_details" /\ ~Rejected(i)) => Calls(i, "issue") = 1

\* a finished get_resource_plan invocation whose find was answered non-2xx
\* next to a finished list_open_issues invocation answered non-2xx
C9_Witness ==
    \E i, j \in Invocations :
        /\ Plan(i) /\ Finished(i)
        /\ \E k \in RespAt(i, "find") : IsNon2xx(hist[i][k])
        /\ Calls(i, "login") = 1 /\ Calls(i, "find") = 1 /\ Calls(i, "logout") = 1
        /\ tool[j] = "list_open_issues" /\ Finished(j)
        /\ \E k \in RespAt(j, "issues") : IsNon2xx(hist[j][k])

(* ------------------------------- C10 ----------------------------------- *)
\* C10: for every non-2xx response to a call of a finished invocation the
\* tool has returned an envelope with isError = true whose text contains
\* that status code.
C10_StatusInErrorEnvelope ==
    \A i \in Invocations :
        Finished(i) =>
            \A k \in 1..Len(hist[i]) :
                (hist[i][k].ev = "resp" /\ IsNon2xx(hist[i][k])) =>
                    /\ result[i].kind = "return"
                    /\ result[i].isError
                    /\ ToString(hist[i][k].status) \in Range(result[i].text)

(* ------------------------------- C11 ----------------------------------- *)
List(i) == tool[i] = "list_open_issues"
Detail(i) == tool[i] = "get_issue_details"
\* the outbound call that fetches the data of the tool of invocation i
DataCall(i) == IF List(i) THEN "issues" ELSE IF Detail(i) THEN "issue" ELSE "find"

\* the data call was answered 2xx with a body the handler could read
DataRead(i) == Answered2xx(i, DataCall(i)) /\ payload[i].readable
\* the data call was answered and ended in a fault of any kind
DataFault(i) == Answered(i, DataCall(i)) /\ ~DataRead(i)

\* C11: a finished list_open_issues or get_issue_details invocation has
\* returned an envelope, never thrown; when the call raised a transport
\* fault, was answered non-2xx or with an unusable body, the envelope has
\* isError = true.
C11_IssueToolsCatchFaults ==
    \A i \in Invocations :
        ((List(i) \/ Detail(i)) /\ Finished(i)) =>
            /\ result[i].kind = "return"
            /\ DataFault(i) => result[i].isError

\* a list_open_issues invocation answered 2xx with an unusable body next
\* to a get_issue_details invocation whose fetch raised a transport fault
C11_Witness ==
    \E i, j \in Invocations :
        /\ List(i) /\ Finished(i) /\ Answered2xx(i, "issues") /\ ~payload[i].readable
        /\ result[i].kind = "return" /\ result[i].isError
        /\ Detail(j) /\ Finished(j)
        /\ \E k \in RespAt(j, "issue") : IsFault(hist[j][k])
        /\ result[j].kind = "return" /\ result[j].isError

(* ------------------------------- C12 ----------------------------------- *)
RECURSIVE SplitLines(_)
\* the lines of a text: its parts between the "\n" separators
SplitLines(parts) ==
    IF \A k \in 1..Len(parts) : parts[k] # "\n" THEN <<parts>>
    ELSE LET cut == CHOOSE k \in 1..Len(parts) :
                        parts[k] = "\n" /\ \A m \in 1..(k - 1) : parts[m] # "\n"
         IN  <<SubSeq(parts, 1, cut - 1)>> \o SplitLines(SubSeq(parts, cut + 1, Len(parts)))

\* the issue lines shown by a list_open_issues success text: what follows
\* the seven parts of the "Found ..." header
ShownLines(text) == SplitLines(SubSeq(text, 8, Len(text)))

\* C12: for an upstream list of n >= 1 issues list_open_issues returns a
\* success envelope showing exactly min(n, 5) lines, line k being the
\* k-th upstream issue, and reporting the total n.
C12_FirstFiveAndTotal ==
    \A i \in Invocations :
        (List(i) /\ Finished(i) /\ DataRead(i) /\ payload[i].n >= 1) =>
            LET n == payload[i].n
                lines == ShownLines(result[i].text)
            IN  /\ result[i].kind = "return" /\ ~result[i].isError
                /\ Len(lines) = Min(n, 5)
                /\ \A k \in 1..Len(lines) :
                        lines[k] = <<"#", ToString(k), ": ", "title" \o ToString(k),
                                     " (by ", "user" \o ToString(k), ")">>
                /\ result[i].text[1] = "Found " /\ result[i].text[2] = ToString(n)
                /\ n >= Len(lines)

\* a list of more than five issues, shown as five lines
C12_Witness ==
    \E i \in Invocations :
        /\ List(i) /\ Finished(i) /\ DataRead(i) /\ payload[i].n > 5
        /\ Len(ShownLines(result[i].text)) = 5

(* ------------------------------- C13 ----------------------------------- *)
\* C13: when the upstream answers 2xx with an empty issue list,
\* list_open_issues returns the zero-results message with isError = false.
C13_EmptyListIsSuccess ==
    \A i \in Invocations :
        (List(i) /\ Finished(i) /\ DataRead(i) /\ payload[i].n = 0) =>
            result[i] = Envelope(FALSE, <<"No open issues found for ", args[i].owner,
                                          "/", args[i].repo, ".">>)

C13_Witness ==
    \E i \in Invocations :
        /\ List(i) /\ Finished(i) /\ DataRead(i) /\ payload[i].n = 0
        /\ ~result[i].isError

(* ------------------------------- C14 ----------------------------------- *)
\* the failure the try block of invocation i ran into, if any
Failed(i) ==
    IF Rejected(i) THEN TRUE
    ELSE IF Plan(i)
    THEN \/ CredentialsAbsent
         \/ AnsweredFailure(i, "login")
         \/ Answered(i, "login") /\ OwnTokens(i) = {}
         \/ DataFault(i)
    ELSE DataFault(i)

\* the texts a failure message may consist of
FailureTexts ==
    {FetchFailed[1], BadPayload[1], ConfigError[1], " is required"}
        \cup {ToString(st) : st \in Statuses}

\* C14: every envelope a handler returns carries one non-empty text and
\* has isError = true exactly when the invocation failed, its text then
\* containing the failure message; a success has isError = false.
C14_EnvelopeShape ==
    \A i \in Invocations :
        (Finished(i) /\ result[i].kind = "return") =>
            /\ Len(result[i].text) >= 1
            /\ result[i].isError <=> Failed(i)
            /\ result[i].isError => Range(result[i].text) \cap FailureTexts # {}
            /\ ~result[i].isError => Range(result[i].text) \cap FailureTexts = {}

\* a failed get_issue_details invocation next to a successful
\* get_resource_plan invocation, both returned as envelopes
C14_Witness ==
    \E i, j \in Invocations :
        /\ Detail(i) /\ Finished(i) /\ result[i].kind = "return" /\ result[i].isError
        /\ Plan(j) /\ Finished(j) /\ result[j].kind = "return" /\ ~result[j].isError

(* ------------------------------- C15 ----------------------------------- *)
\* C15: a tool call that leaves out a required field (repo of the issue
\* tools, date_range of get_resource_plan) ends with a failure envelope
\* and the invocation has issued no outbound request.
C15_InvalidArgsNoRequest ==
    \A i \in Invocations :
        Rejected(i) =>
            /\ Finished(i)
            /\ result[i].kind = "return" /\ result[i].isError
            /\ hist[i] = <<>>

\* a list_open_issues call without repo, answered
C15_Witness ==
    \E i \in Invocations :
        /\ List(i) /\ args[i].repo = Undefined /\ args[i].owner \in Owners
        /\ Finished(i) /\ result[i].isError

(* ------------------------------- C16 ----------------------------------- *)
\* login and find of invocation i were answered 2xx and the find body
\* holds no record
ZeroRecords(i) ==
    /\ Plan(i) /\ Answered2xx(i, "login")
    /\ DataRead(i) /\ payload[i].n = 0

NoneFound(i) ==
    Envelope(FALSE, <<"No resource plan found for ", args[i].user_name,
                      " for ", args[i].date_range>>)

\* C16: when login and find succeed and the find holds no
\* record, a finished get_resource_plan invocation has performed the
\* logout and returned the none-found message as a success.
C16_ZeroRecordsIsSuccess ==
    \A i \in Invocations :
        (ZeroRecords(i) /\ Finished(i)) =>
            /\ Calls(i, "logout") = 1 /\ Answered(i, "logout")
            /\ result[i] = NoneFound(i)

(* ------------------------------- C17 ----------------------------------- *)
\* invocations i and j ran get_issue_details with the same arguments and
\* their fetches settled the same way with the same body
SameDetailCall(i, j) ==
    /\ Detail(i) /\ Detail(j)
    /\ ~Rejected(i) /\ ~Rejected(j)
    /\ Finished(i) /\ Finished(j)
    /\ args[i] = args[j]
    /\ hist[i] = hist[j]
    /\ payload[i] = payload[j]

ReturnsToken(i, tok) ==
    /\ result[i].kind = "return"
    /\ tok \in Range(result[i].text)

\* the logout request for token tok was issued by invocation i and
\* answered 2xx
Released(i, tok) ==
    \E k \in ReqAt(i, "logout") :
        /\ hist[i][k].token = tok
        /\ \E m \in RespAt(i, "logout") : m > k /\ Is2xx(hist[i][m])

\* C19: an envelope whose text contains a session token is the result of
\* the invocation that was given the token, and the logout request for
\* that token has been issued and answered 2xx; no such envelope exists
\* while the logout is outstanding or after it failed.
C19_TokenReturnedOnlyAfterLogout ==
    \A i, j \in Invocations :
        ReturnsToken(i, TokenOf(j)) =>
            /\ i = j
            /\ Plan(i) /\ Finished(i)
            /\ Released(i, TokenOf(j))
            /\ ~AnsweredFailure(i, "logout")

C19_Witness ==
    \E i \in Invocations :
        /\ Plan(i) /\ Finished(i) /\ payload[i].n >= 1
        /\ ReturnsToken(i, TokenOf(i)) /\ Released(i, TokenOf(i))

(* ------------------------------- C20 ----------------------------------- *)
\* C20: no get_resource_plan invocation has ever issued more than three
\* requests and, when every request it awaits settles, every started
\* invocation is finished from some point on, by returning or by
\* throwing.
C20_TerminatesWithinThreeRequests ==
    /\ [](\A i \in Invocations : Plan(i) => Cardinality(Requests(i)) <= 3)
    /\ <>[](\A i \in Invocations : Plan(i) => Finished(i))

\* an invocation that finished after login, find and logout requests
C20_Witness ==
    \E i \in Invocations :
        /\ Plan(i) /\ Finished(i)
        /\ Cardinality(Requests(i)) = 3
        /\ result[i].kind \in {"return", "throw"}

(* ------------------------------- C18 ----------------------------------- *)
\* a line spelling "quit" in any mix of upper and lower case
SpellsQuit(line) ==
    /\ Len(line) = 4
    /\ line[1] \in {"q", "Q"} /\ line[2] \in {"u", "U"}
    /\ line[3] \in {"i", "I"} /\ line[4] \in {"t", "T"}

\* a line that is a decimal numeral: an optional sign and digits only
IsNumeral(line) ==
    LET ds == IF Len(line) > 0 /\ line[1] \in {"+", "-"} THEN Tail(line) ELSE line
    IN  Len(ds) > 0 /\ \A k \in 1..Len(ds) : IsDigit(ds[k])

\* the client took a step that did not raise an exception
ClientStep == client' # client /\ client'.exit # "exception"

\* the loop is left only by "quit" at the owner prompt or by an exception
LeavesLoopOnlyOnQuit ==
    (client.pc \notin {"connect", "closed"} /\ client'.pc = "closed") =>
        \/ client'.exit = "exception"
        \/ client'.exit = "quit" /\ client.pc = "ask_owner" /\ SpellsQuit(client'.owner)

\* rl.close() and then client.close(), once each, on every exit
ClosedOnceOnExit ==
    /\ client'.pc = "closed" => client'.closes = <<"rl.close", "client.close">>
    /\ client'.pc # "closed" => client'.closes = <<>>

\* an invalid action makes no tool call and leads to the owner prompt
InvalidActionNoCall ==
    (ClientStep /\ client.pc = "ask_action" /\ client'.action \notin {<<"1">>, <<"2">>}) =>
        client'.calls = client.calls /\ client'.pc = "ask_owner"

\* a non-numeric issue number makes no tool call and leads to the owner
\* prompt
NonNumericNoCall ==
    (ClientStep /\ client.pc = "ask_number" /\ ~IsNumeral(client'.issueNumberStr)) =>
        client'.calls = client.calls /\ client'.pc = "ask_owner"

\* C18: once the prompt loop is entered it is left only when the owner
\* line spells "quit" in any case or an exception is raised; on every exit
\* rl.close() and then client.close() are called exactly once; an invalid
\* action or a non-numeric issue number makes no tool call and returns to
\* the owner prompt.
C18_ClientLoop ==
    [][/\ LeavesLoopOnlyOnQuit
       /\ ClosedOnceOnExit
       /\ InvalidActionNoCall
       /\ NonNumericNoCall]_vars
====
